---- MODULE Spec2Model ----
(***************************************************************************)
(* A model of scripts/conversion_toolkits/convert_electra.py: the          *)
(* conversion of a TensorFlow ELECTRA checkpoint into the parameters of    *)
(* the three Gluon models (backbone, discriminator, generator).            *)
(*                                                                         *)
(* A parameter name is a sequence of tokens whose concatenation is the     *)
(* Python string: "/", "." and the path components are tokens, and a       *)
(* component is split where a CONVERT_MAP pattern, a filter or a regular   *)
(* expression of the script can match inside it ("layer_" "0", "dense"     *)
(* "_1", "generator" "_predictions", "embeddings" "_project", "output"     *)
(* "_bias").  str.replace, `in`, endswith and re.match then act on token   *)
(* sequences exactly as they act on the strings.                           *)
(*                                                                         *)
(* A tensor is modelled by where its value comes from: the source names    *)
(* it was built from and whether it was transposed, or the random          *)
(* initialisation of a target slot.                                        *)
(***************************************************************************)
EXTENDS Integers, Sequences, FiniteSets, TLC

\* cfg.MODEL.num_layers of the configuration under conversion.
NumLayers == 2

None == <<>>
Some(x) == <<x>>

Digit(i) == <<"0", "1", "2", "3", "4", "5", "6", "7", "8", "9">>[i + 1]
Digits == {Digit(i) : i \in 0..9}

\* a / b  and  a . b
P(a, b) == a \o <<"/">> \o b
D(a, b) == a \o <<".">> \o b

RECURSIVE Flatten(_)
Flatten(ss) == IF ss = <<>> THEN <<>> ELSE Head(ss) \o Flatten(Tail(ss))

SeqToSet(s) == {s[i] : i \in 1..Len(s)}

(***************************************************************************)
(* Python string operations on token sequences.                            *)
(***************************************************************************)
\* sub in s
Contains(s, sub) ==
    \E i \in 1..(Len(s) - Len(sub) + 1) : SubSeq(s, i, i + Len(sub) - 1) = sub

\* s.endswith(suf)
EndsWith(s, suf) ==
    /\ Len(s) >= Len(suf)
    /\ SubSeq(s, Len(s) - Len(suf) + 1, Len(s)) = suf

\* s.replace(old, new): every non-overlapping occurrence, leftmost first
RECURSIVE Replace(_, _, _)
Replace(s, old, new) ==
    IF Len(s) < Len(old) THEN s
    ELSE IF SubSeq(s, 1, Len(old)) = old
         THEN new \o Replace(SubSeq(s, Len(old) + 1, Len(s)), old, new)
         ELSE <<Head(s)>> \o Replace(Tail(s), old, new)

(***************************************************************************)
(* The variable names of an ELECTRA checkpoint, in sorted() order.         *)
(***************************************************************************)
\* the variables of one transformer layer under a layer prefix, sorted
LayerVars(pre) ==
    LET att == P(pre, <<"attention">>)
        ao  == P(att, <<"output">>)
        as  == P(att, <<"self">>)
        out == P(pre, <<"output">>)
    IN << P(P(ao, <<"LayerNorm">>), <<"beta">>),
          P(P(ao, <<"LayerNorm">>), <<"gamma">>),
          P(P(ao, <<"dense">>), <<"bias">>),
          P(P(ao, <<"dense">>), <<"kernel">>),
          P(P(as, <<"key">>), <<"bias">>),
          P(P(as, <<"key">>), <<"kernel">>),
          P(P(as, <<"query">>), <<"bias">>),
          P(P(as, <<"query">>), <<"kernel">>),
          P(P(as, <<"value">>), <<"bias">>),
          P(P(as, <<"value">>), <<"kernel">>),
          P(P(P(pre, <<"intermediate">>), <<"dense">>), <<"bias">>),
          P(P(P(pre, <<"intermediate">>), <<"dense">>), <<"kernel">>),
          P(P(out, <<"LayerNorm">>), <<"beta">>),
          P(P(out, <<"LayerNorm">>), <<"gamma">>),
          P(P(out, <<"dense">>), <<"bias">>),
          P(P(out, <<"dense">>), <<"kernel">>) >>

LayerPrefix(scope, i) == P(P(<<scope>>, <<"encoder">>), <<"layer_", Digit(i)>>)

EncoderVars(scope) ==
    Flatten([i \in 1..NumLayers |-> LayerVars(LayerPrefix(scope, i - 1))])

DiscHead == <<"discriminator", "_predictions">>
GenHead == <<"generator", "_predictions">>

EmbeddingVars ==
    << <<"electra", "/", "embeddings", "/", "LayerNorm", "/", "beta">>,
       <<"electra", "/", "embeddings", "/", "LayerNorm", "/", "gamma">>,
       <<"electra", "/", "embeddings", "/", "position_embeddings">>,
       <<"electra", "/", "embeddings", "/", "token_type_embeddings">>,
       <<"electra", "/", "embeddings", "/", "word_embeddings">> >>

ProjectVars(scope) ==
    << <<scope, "/", "embeddings", "_project", "/", "bias">>,
       <<scope, "/", "embeddings", "_project", "/", "kernel">> >>

WordEmbeddings == EmbeddingVars[5]

\* a query kernel of a layer the configuration does not have
StrayQuery ==
    P(P(P(P(LayerPrefix("electra", NumLayers), <<"attention">>), <<"self">>),
        <<"query">>), <<"kernel">>)
\* a variable no target parameter corresponds to
PoolerKernel == <<"electra", "/", "pooler", "/", "dense", "/", "kernel">>
\* the word embedding of a generator trained with untied embeddings
GenWordEmbeddings == <<"generator", "/", "embeddings", "/", "word_embeddings">>

\* optimizer state and scalars of a training checkpoint
AdamM == P(WordEmbeddings, <<"adam_m">>)
AdamV == P(WordEmbeddings, <<"adam_v">>)
GlobalStep == <<"global_step">>
Temperature == P(GenHead, <<"temperature">>)

\* every variable name a modelled checkpoint can hold, in sorted() order
SortedNames ==
    << P(P(DiscHead, <<"dense">>), <<"bias">>),
       P(P(DiscHead, <<"dense">>), <<"kernel">>),
       P(P(DiscHead, <<"dense", "_1">>), <<"bias">>),
       P(P(DiscHead, <<"dense", "_1">>), <<"kernel">> ) >>
    \o EmbeddingVars
    \o << AdamM, AdamV >>
    \o ProjectVars("electra")
    \o EncoderVars("electra")
    \o << StrayQuery, PoolerKernel, GenWordEmbeddings >>
    \o ProjectVars("generator")
    \o EncoderVars("generator")
    \o << P(P(GenHead, <<"LayerNorm">>), <<"beta">>),
          P(P(GenHead, <<"LayerNorm">>), <<"gamma">>),
          P(P(GenHead, <<"dense">>), <<"bias">>),
          P(P(GenHead, <<"dense">>), <<"kernel">>),
          P(GenHead, <<"output", "_bias">>),
          Temperature,
          GlobalStep >>

AllNames == SeqToSet(SortedNames)

\* names that a released checkpoint does not hold
ExtraNames == {StrayQuery, PoolerKernel, GenWordEmbeddings}
\* the variables of a released ELECTRA checkpoint
FullCheckpoint == AllNames \ ExtraNames

\* tf.trainable_variables() after modeling.BertModel is built: the variables
\* of the "electra" scope
BackboneVars ==
    SeqToSet(EmbeddingVars \o ProjectVars("electra") \o EncoderVars("electra"))

(***************************************************************************)
(* The name-mapping engine.                                                *)
(***************************************************************************)
BM == <<"backbone_model", ".">>

CONVERT_MAP ==
    << << BM \o DiscHead \o <<"/", "dense", "_1">>, <<"rtd_encoder", ".", "2">> >>,
       << BM \o DiscHead \o <<"/", "dense">>, <<"rtd_encoder", ".", "0">> >>,
       << BM \o GenHead \o <<"/", "dense">>, <<"mlm_decoder", ".", "0">> >>,
       << BM \o GenHead \o <<"/", "LayerNorm">>, <<"mlm_decoder", ".", "2">> >>,
       << BM \o GenHead \o <<"/", "output", "_bias">>,
          <<"mlm_decoder", ".", "3", ".", "bias">> >>,
       << <<"electra", "/">>, <<>> >>,
       << <<"generator", "/">>, <<>> >>,
       << <<"embeddings", "_project">>, <<"embed_factorized_proj">> >>,
       << <<"embeddings", "/", "word_embeddings">>, <<"word_embed", ".", "weight">> >>,
       << <<"embeddings", "/", "token_type_embeddings">>,
          <<"token_type_embed", ".", "weight">> >>,
       << <<"embeddings", "/", "position_embeddings">>,
          <<"token_pos_embed", ".", "_embed", ".", "weight">> >>,
       << <<"layer_">>, <<"all_encoder_layers", ".">> >>,
       << <<"embeddings", "/", "LayerNorm">>, <<"embed_layer_norm">> >>,
       << <<"attention", "/", "output", "/", "LayerNorm">>, <<"layer_norm">> >>,
       << <<"attention", "/", "output", "/", "dense">>, <<"attention_proj">> >>,
       << <<"output", "/", "LayerNorm">>, <<"ffn", ".", "layer_norm">> >>,
       << <<"LayerNorm">>, <<"layer_norm">> >>,
       << <<"intermediate", "/", "dense">>, <<"ffn", ".", "ffn_1">> >>,
       << <<"output", "/", "dense">>, <<"ffn", ".", "ffn_2">> >>,
       << <<"output", "/">>, <<>> >>,
       << <<"kernel">>, <<"weight">> >>,
       << <<"/">>, <<".">> >> >>

\* for old, new in CONVERT_MAP: target_name = target_name.replace(old, new),
\* from rule i on
RECURSIVE ApplyRules(_, _)
ApplyRules(target_name, i) ==
    IF i > Len(CONVERT_MAP) THEN target_name
    ELSE ApplyRules(Replace(target_name, CONVERT_MAP[i][1], CONVERT_MAP[i][2]), i + 1)

\* the `continue` of the role filter
RoleSkips(source_name, convert_type) ==
    CASE convert_type = "backbone" -> ~Contains(source_name, <<"electra">>)
      [] convert_type = "disc" -> Contains(source_name, <<"generator">>)
      [] convert_type = "gen" -> ~Contains(source_name, <<"generator">>)

\* target_name as first set for the role
Prefixed(source_name, convert_type) ==
    IF convert_type = "backbone" THEN source_name ELSE BM \o source_name

\* TargetName with the test for the fused projections narrowed to the query
TargetNameQueryOnly(source_name, convert_type) ==
    IF Contains(source_name, <<"self", "/", "query">>)
    THEN None
    ELSE Some(ApplyRules(Prefixed(source_name, convert_type), 1))

\* name_map[source_name] of a name the role filter lets through
TargetName(source_name, convert_type) ==
    IF Contains(source_name, <<"self", "/">>)
    THEN None
    ELSE Some(ApplyRules(Prefixed(source_name, convert_type), 1))

\* TargetName of every name, per role
NameTable == [ct \in {"backbone", "disc", "gen"} |->
                [n \in AllNames |-> TargetName(n, ct)]]

\* the dictionary, as the sequence of its items in insertion order: one item
\* for each name of tf_names the role filter lets through
get_name_map(tf_names, convert_type) ==
    LET kept == SelectSeq(tf_names, LAMBDA n : ~RoleSkips(n, convert_type))
    IN [i \in 1..Len(kept) |-> [src |-> kept[i], dst |-> NameTable[convert_type][kept[i]]]]

(***************************************************************************)
(* The target models and their parameters.                                 *)
(***************************************************************************)
\* Roles with the generator converted before the discriminator
RolesGenFirst == <<"backbone", "gen", "disc">>

Roles == <<"backbone", "disc", "gen">>
RoleSet == SeqToSet(Roles)

WB == {<<"weight">>, <<"bias">>}
GB == {<<"gamma">>, <<"beta">>}
Under(pre, leaves) == {D(pre, l) : l \in leaves}

\* ElectraModel's parameters, each name prefixed with pre
TrunkParams(pre) ==
    {pre \o <<"word_embed", ".", "weight">>,
     pre \o <<"token_type_embed", ".", "weight">>,
     pre \o <<"token_pos_embed", ".", "_embed", ".", "weight">>}
    \cup Under(pre \o <<"embed_layer_norm">>, GB)
    \cup Under(pre \o <<"embed_factorized_proj">>, WB)
    \cup UNION {
           LET l == pre \o <<"encoder", ".", "all_encoder_layers", ".", Digit(i)>>
           IN Under(D(l, <<"attn_qkv">>), WB)
              \cup Under(D(l, <<"attention_proj">>), WB)
              \cup Under(D(l, <<"layer_norm">>), GB)
              \cup Under(D(l, <<"ffn", ".", "ffn_1">>), WB)
              \cup Under(D(l, <<"ffn", ".", "ffn_2">>), WB)
              \cup Under(D(l, <<"ffn", ".", "layer_norm">>), GB)
           : i \in 0..(NumLayers - 1)}

\* model.collect_params().keys() of the model of each role
ModelParams(role) ==
    CASE role = "backbone" -> TrunkParams(<<>>)
      [] role = "disc" ->
            TrunkParams(BM)
            \cup Under(<<"rtd_encoder", ".", "0">>, WB)
            \cup Under(<<"rtd_encoder", ".", "2">>, WB)
      [] role = "gen" ->
            TrunkParams(BM)
            \cup Under(<<"mlm_decoder", ".", "0">>, WB)
            \cup Under(<<"mlm_decoder", ".", "2">>, GB)
            \cup Under(<<"mlm_decoder", ".", "3">>, WB)

ParamsOf == [r \in RoleSet |-> ModelParams(r)]
TargetParams(role) == ParamsOf[role]

DiscWordEmbed == BM \o <<"word_embed", ".", "weight">>
MlmDecoderWeight == <<"mlm_decoder", ".", "3", ".", "weight">>

\* the parameters tie_embeddings is given: the discriminator backbone's word,
\* token-type and position embeddings and its embedding layer norm
TiedEmbeddings ==
    {DiscWordEmbed,
     BM \o <<"token_type_embed", ".", "weight">>,
     BM \o <<"token_pos_embed", ".", "_embed", ".", "weight">>}
    \cup Under(BM \o <<"embed_layer_norm">>, GB)

\* Slot without the call of tie_embeddings
SlotUntied(role, name) == <<role, name>>

\* the storage a parameter name of a role's model refers to: the generator's
\* tied parameters are the discriminator's, and its MLM decoder weight is the
\* word embedding
Slot(role, name) ==
    IF role = "gen" /\ name \in TiedEmbeddings THEN <<"disc", name>>
    ELSE IF role = "gen" /\ name = MlmDecoderWeight THEN <<"disc", DiscWordEmbed>>
    ELSE <<role, name>>

\* every (model, parameter name) and the storage behind them
ParamKeys == UNION {{<<r, n>> : n \in TargetParams(r)} : r \in RoleSet}
Slots == {Slot(k[1], k[2]) : k \in ParamKeys}

\* disc_embed_params
disc_embed_params ==
    {BM \o <<"embed_layer_norm", ".", "beta">>,
     BM \o <<"embed_layer_norm", ".", "gamma">>,
     BM \o <<"token_pos_embed", ".", "_embed", ".", "weight">>,
     BM \o <<"token_type_embed", ".", "weight">>,
     <<"mlm_decoder", ".", "3", ".", "weight">>,
     BM \o <<"word_embed", ".", "weight">>}

\* FusedPattern with the pattern reduced to r'.*\.(weight|bias)$'
FusedPatternLoose(key) ==
    /\ Len(key) >= 2
    /\ key[Len(key) - 1] = "."
    /\ key[Len(key)] \in {"weight", "bias"}

\* re.match(r'^(backbone_model\.){0,1}encoder\.all_encoder_layers\.[\d]+
\*            \.attn_qkv\.(weight|bias)$', key) is not None
FusedPattern(key) ==
    LET k == IF Len(key) >= 2 /\ SubSeq(key, 1, 2) = BM
             THEN SubSeq(key, 3, Len(key)) ELSE key
    IN /\ Len(k) >= 9
       /\ SubSeq(k, 1, 4) = <<"encoder", ".", "all_encoder_layers", ".">>
       /\ \A i \in 5..(Len(k) - 4) : k[i] \in Digits
       /\ SubSeq(k, Len(k) - 3, Len(k)) \in
             {<<".", "attn_qkv", ".", "weight">>, <<".", "attn_qkv", ".", "bias">>}

(***************************************************************************)
(* Tensors and the files of save_dir.                                      *)
(***************************************************************************)
\* the value a freshly initialised slot holds
InitValue(slot) == [kind |-> "init", src |-> <<slot[2]>>, owner |-> slot[1], T |-> FALSE]
\* tf_params[src_name], transposed (.T) or not
CopyOf(src_name, transposed) ==
    [kind |-> "copy", src |-> <<src_name>>, owner |-> "tf", T |-> transposed]
\* np.concatenate([q, k, v], axis), transposed or not
ConcatOf(q, k, v, transposed) ==
    [kind |-> "concat", src |-> <<q, k, v>>, owner |-> "tf", T |-> transposed]

\* ParamFile with the backbone's file name used for every role
ParamFileCopied(role) == "model.params"

ParamFile(role) ==
    CASE role = "backbone" -> "model.params"
      [] role = "disc" -> "disc_model.params"
      [] role = "gen" -> "gen_model.params"
ParamFiles == {ParamFile(r) : r \in RoleSet}

NoError == [kind |-> "none", role |-> "", key |-> <<>>, layer |-> -1]

VARIABLES
    pc,               \* the statement convert_tf_model is at
    ckpt,             \* the variable names of the checkpoint (tf_params.keys())
    bad_shape,        \* the names whose tensor has a shape the models do not expect
    test_conversion,  \* the --test flag
    tf_names,         \* the filtered, sorted names
    role_idx,         \* position of the `for convert_type` loop
    name_map,         \* get_name_map's result for the current role
    all_keys,         \* the role's parameter names not yet removed by the loop
    layer_id,         \* position of the `for layer_id` loop
    log,              \* the set_data calls made so far, in order
    files,            \* the files written to save_dir
    saved,            \* per role: the contents of its parameter file, once saved
    err               \* the exception that ended the run

vars == <<pc, ckpt, bad_shape, test_conversion, tf_names, role_idx, name_map,
          all_keys, layer_id, log, files, saved, err>>

convert_type == Roles[role_idx]

\* one released checkpoint, or one with a single deviation: a variable
\* missing, a variable added, or a tensor of an unexpected shape
Init ==
    /\ pc = "assets"
    /\ ckpt \in {FullCheckpoint}
                \cup {FullCheckpoint \ {n} : n \in FullCheckpoint}
                \cup {FullCheckpoint \cup {e} : e \in ExtraNames}
    /\ bad_shape \in {{}} \cup {{n} : n \in FullCheckpoint}
    /\ ckpt = FullCheckpoint \/ bad_shape = {}
    /\ test_conversion \in BOOLEAN
    /\ tf_names = <<>>
    /\ role_idx = 1
    /\ name_map = <<>>
    /\ all_keys = {}
    /\ layer_id = 0
    /\ log = <<>>
    /\ files = {}
    /\ saved = [r \in RoleSet |-> None]
    /\ err = NoError

Raise(kind, key, layer) ==
    /\ pc' = "raised"
    /\ err' = [kind |-> kind, role |-> convert_type, key |-> key, layer |-> layer]

\* convert_tf_assets, then model.yml and vocab.json are written
ConvertAssets ==
    /\ pc = "assets"
    /\ \E vocab_ok \in BOOLEAN :
         IF vocab_ok
         THEN /\ files' = files \cup {"model.yml", "vocab.json"}
              /\ pc' = "read"
              /\ err' = err
         ELSE /\ Raise("config", <<>>, -1)
              /\ files' = files
    /\ UNCHANGED <<ckpt, bad_shape, test_conversion, tf_names, role_idx, name_map,
                   all_keys, layer_id, log, saved>>

\* FilterNames with the second filter comparing the whole name
FilterNamesExact(names) ==
    LET f1 == SelectSeq(names, LAMBDA name : ~EndsWith(name, <<"adam_m">>))
        f2 == SelectSeq(f1, LAMBDA name : name # <<"adam_v">>)
        f3 == SelectSeq(f2, LAMBDA name : name # GlobalStep)
        f4 == SelectSeq(f3, LAMBDA name : name # Temperature)
    IN f4

\* the four filters over sorted(tf_params.keys())
FilterNames(names) ==
    LET f1 == SelectSeq(names, LAMBDA name : ~EndsWith(name, <<"adam_m">>))
        f2 == SelectSeq(f1, LAMBDA name : ~EndsWith(name, <<"adam_v">>))
        f3 == SelectSeq(f2, LAMBDA name : name # GlobalStep)
        f4 == SelectSeq(f3, LAMBDA name : name # Temperature)
    IN f4

\* read_tf_checkpoint and the filtering of the names
ReadCheckpoint ==
    /\ pc = "read"
    /\ tf_names' = FilterNames(SelectSeq(SortedNames, LAMBDA n : n \in ckpt))
    /\ pc' = "check"
    /\ UNCHANGED <<ckpt, bad_shape, test_conversion, role_idx, name_map, all_keys,
                   layer_id, log, files, saved, err>>

\* the TF backbone is built and every trainable variable k of it is compared
\* with tf_params[k]
CheckBackboneParams ==
    /\ pc = "check"
    /\ LET bad == {k \in BackboneVars : k \notin ckpt \/ k \in bad_shape}
       IN IF bad = {}
          THEN pc' = "name_map" /\ err' = err
          ELSE \E k \in bad : Raise("backbone_check", k, -1)
    /\ UNCHANGED <<ckpt, bad_shape, test_conversion, tf_names, role_idx, name_map,
                   all_keys, layer_id, log, files, saved>>

\* name_map = get_name_map(tf_names, convert_type=convert_type)
GetNameMap ==
    /\ pc = "name_map"
    /\ name_map' = get_name_map(tf_names, convert_type)
    /\ pc' = "loop"
    /\ UNCHANGED <<ckpt, bad_shape, test_conversion, tf_names, role_idx, all_keys,
                   layer_id, log, files, saved, err>>

(***************************************************************************)
(* The per-key loop: for (src_name, dst_name) in name_map.items().         *)
(* The loop is given by its state when it ends: the first item that raises *)
(* ends it, and the items before it have been copied.                      *)
(***************************************************************************)
\* all_keys.remove(dst_name) of item i raises because an earlier item removed
\* the same name
Repeated(nm, i) ==
    nm[i].dst # None /\ \E j \in 1..(i - 1) : nm[j].dst = nm[i].dst

\* item i raises whatever came before it: tf_params[src_name] fails, dst_name
\* is no parameter of the model, or set_data rejects the shape
ItemFails(nm, i, role) ==
    \/ nm[i].src \notin ckpt
    \/ /\ nm[i].dst # None
       /\ \/ nm[i].dst[1] \notin TargetParams(role)
          \/ nm[i].src \in bad_shape

\* the index of the first item that raises, Len(nm) + 1 when none does
FirstRaising(nm, role) ==
    LET failing == {i \in 1..Len(nm) : ItemFails(nm, i, role)}
        a == IF failing = {} THEN Len(nm) + 1
             ELSE CHOOSE i \in failing : \A j \in failing : i <= j
        named == {i \in 1..(a - 1) : nm[i].dst # None}
    IN IF Cardinality({nm[i].dst : i \in named}) = Cardinality(named)
       THEN a
       ELSE LET rep == {i \in named : Repeated(nm, i)}
            IN CHOOSE i \in rep : \A j \in rep : i <= j

\* the items the loop has copied when it ends, in order: the ones before
\* item f whose dst_name is not None
CopiedItems(nm, f) ==
    SelectSeq(SubSeq(nm, 1, f - 1), LAMBDA e : e.dst # None)

\* all_keys when the loop ends at item f: all_keys.remove(dst_name) precedes
\* set_data
KeysAfterLoop(nm, role, f) ==
    LET copied == CopiedItems(nm, f)
        removed == {copied[i].dst[1] : i \in 1..Len(copied)}
        last == IF f <= Len(nm) /\ nm[f].src \in ckpt /\ nm[f].dst # None
                THEN {nm[f].dst[1]} ELSE {}
    IN (TargetParams(role) \ removed) \ last

\* the data set by an item: tf_param_val.T for a kernel, tf_param_val otherwise
ItemValue(src_name) == CopyOf(src_name, EndsWith(src_name, <<"kernel">>))

\* mx_params[name].set_data(val) on the model of a role
SetData(role, name, by, val) == [role |-> role, name |-> name, by |-> by, val |-> val]

PerKeyLoop ==
    /\ pc = "loop"
    /\ LET nm == name_map
           role == convert_type
           f == FirstRaising(nm, role)
           copied == CopiedItems(nm, f)
       IN /\ all_keys' = KeysAfterLoop(nm, role, f)
          /\ log' = log \o [i \in 1..Len(copied) |->
                        SetData(role, copied[i].dst[1], "loop", ItemValue(copied[i].src))]
          /\ IF f > Len(nm)
             THEN pc' = "validate" /\ err' = err
             ELSE Raise(IF nm[f].src \in ckpt /\ nm[f].src \in bad_shape
                           /\ nm[f].dst[1] \in TargetParams(role)
                           /\ \A j \in 1..(f - 1) : nm[j].dst # nm[f].dst
                        THEN "shape" ELSE "key",
                        nm[f].src, -1)
    /\ UNCHANGED <<ckpt, bad_shape, test_conversion, tf_names, role_idx, name_map,
                   layer_id, files, saved>>

(***************************************************************************)
(* The check of the keys the loop left: for key in all_keys.               *)
(***************************************************************************)
\* Mismatched with `or` for the `and` of the exemption
MismatchedOr(keys, role) ==
    {key \in keys : /\ ~(role = "gen" \/ key \in disc_embed_params)
                    /\ ~FusedPattern(key)}

\* the keys whose assert fails
Mismatched(keys, role) ==
    {key \in keys : /\ ~(role = "gen" /\ key \in disc_embed_params)
                    /\ ~FusedPattern(key)}

CheckLeftover ==
    /\ pc = "validate"
    /\ LET bad == Mismatched(all_keys, convert_type)
       IN IF bad = {}
          THEN pc' = "merge" /\ layer_id' = 0 /\ err' = err
          ELSE /\ \E key \in bad : Raise("mismatch", key, -1)
               /\ layer_id' = layer_id
    /\ UNCHANGED <<ckpt, bad_shape, test_conversion, tf_names, role_idx, name_map,
                   all_keys, log, files, saved>>

(***************************************************************************)
(* The merge of query, key and value: one iteration of                     *)
(* for layer_id in range(cfg.MODEL.num_layers).                            *)
(***************************************************************************)
\* tf_prefix without the branch of the gen role
tf_prefix_electra(role, layer) ==
    P(P(LayerPrefix("electra", layer), <<"attention">>), <<"self">>)

tf_prefix(role, layer) ==
    P(P(LayerPrefix(IF role = "gen" THEN "generator" ELSE "electra", layer),
        <<"attention">>), <<"self">>)

\* mx_prefix with the layer number fixed to 0
mx_prefix_zero(role, layer) ==
    (IF role = "backbone" THEN <<>> ELSE BM)
    \o <<"encoder", ".", "all_encoder_layers", ".", Digit(0)>>

mx_prefix(role, layer) ==
    (IF role = "backbone" THEN <<>> ELSE BM)
    \o <<"encoder", ".", "all_encoder_layers", ".", Digit(layer)>>

\* the three tensors convert_qkv_weights reads for the weight or the bias
QkvNames(prefix, leaf) ==
    << P(P(prefix, <<"query">>), <<leaf>>),
       P(P(prefix, <<"key">>), <<leaf>>),
       P(P(prefix, <<"value">>), <<leaf>>) >>

\* what stops the merge of one fused slot: the first name tf_params lacks, the
\* missing slot, or a shape that cannot be concatenated or set
MergeFailure(names, role, slot_name) ==
    LET missing == {i \in 1..3 : names[i] \notin ckpt}
    IN IF missing # {}
       THEN [kind |-> "missing_projection",
             key |-> names[CHOOSE i \in missing : \A j \in missing : i <= j]]
       ELSE IF slot_name \notin TargetParams(role)
       THEN [kind |-> "key", key |-> slot_name]
       ELSE IF \E i \in 1..3 : names[i] \in bad_shape
       THEN [kind |-> "shape",
             key |-> names[CHOOSE i \in 1..3 : names[i] \in bad_shape]]
       ELSE [kind |-> "none", key |-> <<>>]

convert_qkv_weights ==
    /\ pc = "merge"
    /\ layer_id < NumLayers
    /\ LET role == convert_type
           kernels == QkvNames(tf_prefix(role, layer_id), "kernel")
           biases == QkvNames(tf_prefix(role, layer_id), "bias")
           weight == D(D(mx_prefix(role, layer_id), <<"attn_qkv">>), <<"weight">>)
           bias == D(D(mx_prefix(role, layer_id), <<"attn_qkv">>), <<"bias">>)
           wfail == MergeFailure(kernels, role, weight)
           bfail == MergeFailure(biases, role, bias)
           wdone == wfail.kind = "none"
           bdone == wdone /\ bfail.kind = "none"
           wset == SetData(role, weight, "merge",
                           ConcatOf(kernels[1], kernels[2], kernels[3], TRUE))
           bset == SetData(role, bias, "merge",
                           ConcatOf(biases[1], biases[2], biases[3], FALSE))
       IN /\ log' = IF bdone THEN log \o <<wset, bset>>
                    ELSE IF wdone THEN Append(log, wset)
                    ELSE log
          /\ IF bdone
             THEN /\ layer_id' = layer_id + 1
                  /\ pc' = IF layer_id + 1 < NumLayers THEN "merge" ELSE "persist"
                  /\ err' = err
             ELSE /\ layer_id' = layer_id
                  /\ IF wdone THEN Raise(bfail.kind, bfail.key, layer_id)
                              ELSE Raise(wfail.kind, wfail.key, layer_id)
    /\ UNCHANGED <<ckpt, bad_shape, test_conversion, tf_names, role_idx, name_map,
                   all_keys, files, saved>>

(***************************************************************************)
(* The end of a role: the optional test of the backbone, then the save.    *)
(***************************************************************************)
\* Tested without the test of the role
TestedAnyRole == test_conversion

Tested == convert_type = "backbone" /\ test_conversion

\* the assert_allclose of the pooled and the contextual outputs
TestConversion ==
    /\ pc = "persist"
    /\ Tested
    /\ \E close \in BOOLEAN :
         IF close THEN pc' = "save" /\ err' = err
         ELSE Raise("equivalence", <<>>, -1)
    /\ UNCHANGED <<ckpt, bad_shape, test_conversion, tf_names, role_idx, name_map,
                   all_keys, layer_id, log, files, saved>>

\* the data a slot holds: what the last set_data on it gave it, its initial
\* value when there was none
Data(slot) ==
    LET ws == {i \in 1..Len(log) : Slot(log[i].role, log[i].name) = slot}
    IN IF ws = {} THEN InitValue(slot)
       ELSE log[CHOOSE i \in ws : \A j \in ws : j <= i].val

\* the data of a parameter of the model of a role
ParamData(role, name) == Data(Slot(role, name))

\* what model.save_parameters writes: the data of every parameter of the model
Snapshot(role) == [n \in TargetParams(role) |-> ParamData(role, n)]

SaveParameters ==
    /\ pc = "save" \/ (pc = "persist" /\ ~Tested)
    /\ files' = files \cup {ParamFile(convert_type)}
    /\ saved' = [saved EXCEPT ![convert_type] = Some(Snapshot(convert_type))]
    /\ IF role_idx < Len(Roles)
       THEN role_idx' = role_idx + 1 /\ pc' = "name_map"
       ELSE role_idx' = role_idx /\ pc' = "finish"
    /\ UNCHANGED <<ckpt, bad_shape, test_conversion, tf_names, name_map, all_keys,
                   layer_id, log, err>>

\* the files of save_dir are renamed; the run is over
Finish ==
    /\ pc = "finish"
    /\ pc' = "done"
    /\ UNCHANGED <<ckpt, bad_shape, test_conversion, tf_names, role_idx, name_map,
                   all_keys, layer_id, log, files, saved, err>>

Next ==
    \/ ConvertAssets
    \/ ReadCheckpoint
    \/ CheckBackboneParams
    \/ GetNameMap
    \/ PerKeyLoop
    \/ CheckLeftover
    \/ convert_qkv_weights
    \/ TestConversion
    \/ SaveParameters
    \/ Finish

Spec == Init /\ [][Next]_vars

(***************************************************************************)
(* Vocabulary of the properties.                                           *)
(***************************************************************************)
RoleIndex(r) == CHOOSE i \in 1..Len(Roles) : Roles[i] = r

\* the parameter file each role is to write
RoleFile == [r \in RoleSet |->
               CASE r = "backbone" -> "model.params"
                 [] r = "disc" -> "disc_model.params"
                 [] r = "gen" -> "gen_model.params"]

\* the set_data calls made on the model of a role
Written(r) == SelectSeq(log, LAMBDA e : e.role = r)
WrittenBy(r, by) == SelectSeq(log, LAMBDA e : e.role = r /\ e.by = by)
NamesOf(entries) == {entries[i].name : i \in 1..Len(entries)}

\* '[backbone_model.]encoder.all_encoder_layers.<n>.attn_qkv.(weight|bias)'
FusedNames ==
    {pre \o <<"encoder", ".", "all_encoder_layers", ".", d, ".", "attn_qkv", ".", l>> :
        pre \in {<<>>, <<"backbone_model", ".">>}, d \in Digits, l \in {"weight", "bias"}}

\* the fused slots of a role's model for one layer
FusedOf(r, layer) ==
    {(IF r = "backbone" THEN <<>> ELSE <<"backbone_model", ".">>)
       \o <<"encoder", ".", "all_encoder_layers", ".", Digit(layer), ".", "attn_qkv", ".", l>> :
         l \in {"weight", "bias"}}

\* the tied names of the generator that its check exempted
Shared(r) == IF r = "gen" THEN all_keys \cap disc_embed_params ELSE {}

HasToken(n, t) == \E i \in 1..Len(n) : n[i] = t
IsProjection(n) == \E i \in 1..(Len(n) - 1) : n[i] = "self" /\ n[i + 1] = "/"

\* the statements of a role from its per-key loop on
InRole == {"loop", "validate", "merge", "persist", "save"}
\* the run has raised inside the conversion of a role
RoleRaised == pc = "raised" /\ err.kind \notin {"config", "backbone_check"}

(***************************************************************************)
(* C1: once a role's parameter file is saved, every parameter name of that *)
(* role's model has been assigned exactly once: no name was given to       *)
(* set_data twice, the names set by the per-key loop, the names set by the *)
(* merge and (generator only) the exempted tied names are pairwise         *)
(* disjoint and together are all the names of the model, and a tied name   *)
(* holds data the discriminator's conversion gave it.                      *)
(***************************************************************************)
C1_AssignedExactlyOnce ==
    \A r \in RoleSet :
        RoleFile[r] \in files =>
            LET w == Written(r)
                looped == NamesOf(WrittenBy(r, "loop"))
                merged == NamesOf(WrittenBy(r, "merge"))
            IN /\ Cardinality(NamesOf(w)) = Len(w)
               /\ looped \cap merged = {}
               /\ (looped \cup merged) \cap Shared(r) = {}
               /\ looped \cup merged \cup Shared(r) = TargetParams(r)
               /\ \A n \in Shared(r) : ParamData(r, n).kind # "init"

C1_Witness ==
    /\ pc = "done"
    /\ files = {"model.yml", "vocab.json"} \cup {RoleFile[r] : r \in RoleSet}
    /\ Shared("gen") = disc_embed_params
    /\ NamesOf(WrittenBy("gen", "merge")) # {}
    /\ NamesOf(WrittenBy("gen", "loop")) # {}

(***************************************************************************)
(* C2, as stated: when the conversion of a role raises, no config,         *)
(* vocabulary or parameter file has been written.                          *)
(***************************************************************************)
C2_NothingWrittenOnRaise == RoleRaised => files = {}

(***************************************************************************)
(* C2, amended: when the conversion of a role raises, the config and the   *)
(* vocabulary file are written, and the parameter files written are        *)
(* exactly those of the roles converted before the raising one.            *)
(***************************************************************************)
C2_EarlierRolesWritten ==
    RoleRaised =>
        /\ {"model.yml", "vocab.json"} \subseteq files
        /\ \A r \in RoleSet : RoleFile[r] \in files <=> RoleIndex(r) < role_idx

C2_Witness == RoleRaised /\ role_idx = 3 /\ err.kind = "missing_projection"

(***************************************************************************)
(* C3: in a run that completes the three roles, every name of tf_names     *)
(* has had its tensor given to set_data, by the per-key loop or the merge, *)
(* in some role.                                                           *)
(***************************************************************************)
C3_NoSourceDropped ==
    pc = "done" =>
        SeqToSet(tf_names) \subseteq
            UNION {SeqToSet(log[i].val.src) : i \in 1..Len(log)}

(***************************************************************************)
(* C4, as stated: the check of the leftover keys of a role runs only after *)
(* the merge has filled the role's fused slots.                            *)
(***************************************************************************)
C4_MergeBeforeCheck ==
    pc = "validate" =>
        \A layer \in 0..(NumLayers - 1) :
            FusedOf(convert_type, layer) \subseteq NamesOf(WrittenBy(convert_type, "merge"))

(***************************************************************************)
(* C4, amended: the steps of a role run in the order name mapping, per-key *)
(* loop, check of the leftover keys, merge, optional test, save.  When the *)
(* check runs the merge has set nothing of the role; the leftover names    *)
(* the check accepted as fused are set by the merge before the role is     *)
(* tested or saved.                                                        *)
(***************************************************************************)
C4_CheckBeforeMerge ==
    /\ pc = "loop" => Written(convert_type) = <<>>
    /\ pc \in {"loop", "validate"} => WrittenBy(convert_type, "merge") = <<>>
    /\ pc = "merge" =>
          NamesOf(WrittenBy(convert_type, "merge"))
              = UNION {FusedOf(convert_type, l) : l \in 0..(layer_id - 1)}
    /\ pc \in {"persist", "save"} =>
          all_keys \ Shared(convert_type) = NamesOf(WrittenBy(convert_type, "merge"))
    /\ \A r \in RoleSet : RoleFile[r] \in files =>
          /\ RoleIndex(r) < role_idx \/ pc \in {"finish", "done"}
          /\ saved[r] # None

C4_Witness ==
    /\ pc = "persist"
    /\ convert_type = "disc"
    /\ all_keys # {}
    /\ all_keys = NamesOf(WrittenBy("disc", "merge"))

(***************************************************************************)
(* C5: when the test of the conversion fails, no parameter file of any     *)
(* role has been written, and the test is made only when every parameter   *)
(* of the backbone has been set by the per-key loop or the merge.          *)
(***************************************************************************)
TestFailed == pc = "raised" /\ err.kind = "equivalence"

C5_TestFailureSavesNothing ==
    /\ TestFailed => files \cap ParamFiles = {} /\ role_idx = 1
    /\ (TestFailed \/ (pc = "persist" /\ Tested)) =>
          NamesOf(WrittenBy("backbone", "loop")) \cup NamesOf(WrittenBy("backbone", "merge"))
              = TargetParams("backbone")

C5_Witness ==
    /\ pc = "raised"
    /\ err.kind = "equivalence"
    /\ NamesOf(WrittenBy("backbone", "merge")) # {}

(***************************************************************************)
(* C6, C7: vocabulary.                                                     *)
(***************************************************************************)
\* the six query/key/value tensors of a layer under a source scope
Projections(scope, layer) ==
    {<<scope, "/", "encoder", "/", "layer_", Digit(layer), "/", "attention", "/",
       "self", "/", m, "/", l>> : m \in {"query", "key", "value"}, l \in {"kernel", "bias"}}

\* the source scope a role's merge reads
ScopeOf(r) == IF r = "gen" THEN "generator" ELSE "electra"

\* the run is over, and was ended neither by the assertion on the vocabulary
\* size nor by a failed test of the backbone
Ended == pc = "done" \/ (pc = "raised" /\ err.kind \notin {"config", "equivalence"})

Merged(r) == NamesOf(WrittenBy(r, "merge"))

(***************************************************************************)
(* C6, as stated: when the checkpoint lacks a query/key/value tensor of    *)
(* layer L under the scope a role reads, the run ends with the merge of a  *)
(* role of that scope raising at layer L, that role's fused slots below L  *)
(* written, none above L written, and that role's file not saved.          *)
(***************************************************************************)
C6_MergeRaisesAtLayer ==
    \A scope \in {"electra", "generator"}, L \in 0..(NumLayers - 1) :
        (Ended /\ ~(Projections(scope, L) \subseteq ckpt)) =>
            /\ err.kind = "missing_projection"
            /\ err.layer = L
            /\ ScopeOf(err.role) = scope
            /\ \A l \in 0..(L - 1) : FusedOf(err.role, l) \subseteq Merged(err.role)
            /\ \A l \in (L + 1)..(NumLayers - 1) : FusedOf(err.role, l) \cap Merged(err.role) = {}
            /\ RoleFile[err.role] \notin files

(***************************************************************************)
(* C6, amended: in a run ended neither by the vocabulary assertion nor by  *)
(* a failed test of the backbone, when the checkpoint lacks a query, key   *)
(* or value tensor of layer L under 'generator/', the merge of the gen     *)
(* role raises on that tensor at layer L, with the gen fused slots below L *)
(* written, none above L written and gen_model.params not saved; when it   *)
(* lacks one under 'electra/', the run raises on that tensor at the        *)
(* comparison of the backbone variables, before any role: nothing is set   *)
(* and no parameter file is saved.                                         *)
(***************************************************************************)
C6_MissingProjection ==
    \A L \in 0..(NumLayers - 1) :
        /\ (Ended /\ ~(Projections("generator", L) \subseteq ckpt)) =>
              /\ err.kind = "missing_projection"
              /\ err.role = "gen"
              /\ err.layer = L
              /\ err.key \in Projections("generator", L) \ ckpt
              /\ \A l \in 0..(L - 1) : FusedOf("gen", l) \subseteq Merged("gen")
              /\ \A l \in (L + 1)..(NumLayers - 1) : FusedOf("gen", l) \cap Merged("gen") = {}
              /\ RoleFile["gen"] \notin files
        /\ (Ended /\ ~(Projections("electra", L) \subseteq ckpt)) =>
              /\ err.kind = "backbone_check"
              /\ err.key \in Projections("electra", L) \ ckpt
              /\ log = <<>>
              /\ files \cap ParamFiles = {}

C6_Witness ==
    /\ pc = "raised"
    /\ err.kind = "missing_projection"
    /\ err.layer = NumLayers - 1
    /\ FusedOf("gen", 0) \subseteq Merged("gen")
    /\ {"model.params", "disc_model.params"} \subseteq files

(***************************************************************************)
(* C7: the check of the leftover keys lets a role pass only when every     *)
(* name the per-key loop did not assign is a fused-projection name or, for *)
(* the gen role alone, one of the six tied names; it raises on a key that  *)
(* is neither.                                                             *)
(***************************************************************************)
C7_LeftoverIsFused ==
    /\ pc \in {"merge", "persist", "save"} =>
          /\ all_keys \cap NamesOf(WrittenBy(convert_type, "loop")) = {}
          /\ all_keys \cup NamesOf(WrittenBy(convert_type, "loop")) = TargetParams(convert_type)
          /\ all_keys \subseteq
                FusedNames \cup (IF convert_type = "gen" THEN disc_embed_params ELSE {})
    /\ (pc = "raised" /\ err.kind = "mismatch") =>
          /\ err.key \in all_keys \ FusedNames
          /\ err.role = "gen" => err.key \notin disc_embed_params

C7_Witness ==
    /\ pc = "raised"
    /\ err.kind = "mismatch"
    /\ err.role = "disc"
    /\ err.key = <<"rtd_encoder", ".", "0", ".", "weight">>

(***************************************************************************)
(* C8: at every moment the data of each tied parameter of the generator    *)
(* (word, token-type and position embedding, embedding layer-norm gamma    *)
(* and beta, and the MLM decoder weight) is the data of the corresponding  *)
(* parameter of the discriminator's backbone.                              *)
(***************************************************************************)
TiedPairs ==
    {<<n, n>> : n \in disc_embed_params \ {<<"mlm_decoder", ".", "3", ".", "weight">>}}
    \cup {<< <<"mlm_decoder", ".", "3", ".", "weight">>,
             <<"backbone_model", ".", "word_embed", ".", "weight">> >>}

PassesFilter(n, r) ==
    CASE r = "backbone" -> HasToken(n, "electra")
      [] r = "disc" -> ~HasToken(n, "generator")
      [] r = "gen" -> HasToken(n, "generator")

Rewritten == [r \in RoleSet |-> [n \in AllNames |->
                 ApplyRules(IF r = "backbone" THEN n ELSE <<"backbone_model", ".">> \o n, 1)]]

C9_NameMap ==
    /\ pc = "loop" =>
          /\ {name_map[i].src : i \in 1..Len(name_map)}
                = {n \in SeqToSet(tf_names) : PassesFilter(n, convert_type)}
          /\ \A i, j \in 1..Len(name_map) : name_map[i].src = name_map[j].src => i = j
          /\ \A i \in 1..Len(name_map) :
                IF IsProjection(name_map[i].src)
                THEN name_map[i].dst = None
                ELSE name_map[i].dst = Some(Rewritten[convert_type][name_map[i].src])
    /\ \A i \in 1..Len(log) :
          log[i].by = "loop" => ~IsProjection(log[i].val.src[1])

C9_Witness ==
    /\ pc = "validate"
    /\ convert_type = "disc"
    /\ \E i, j \in 1..Len(name_map) :
          /\ name_map[i].dst = None
          /\ name_map[j].src = <<"discriminator", "_predictions", "/", "dense", "_1", "/", "kernel">>
          /\ name_map[j].dst = Some(<<"rtd_encoder", ".", "2", ".", "weight">>)
    /\ <<"rtd_encoder", ".", "2", ".", "weight">> \in NamesOf(WrittenBy("disc", "loop"))

(***************************************************************************)
(* C10: names ending in 'adam_m' or 'adam_v', 'global_step' and            *)
(* 'generator_predictions/temperature' are in no tf_names and no name map, *)
(* are copied into no parameter, and are never what a run raises on: a     *)
(* checkpoint that differs from a released one only in them raises in no   *)
(* role.                                                                   *)
(***************************************************************************)
Unused(n) ==
    /\ n # <<>>
    /\ \/ n[Len(n)] \in {"adam_m", "adam_v"}
       \/ n = <<"global_step">>
       \/ n = <<"generator", "_predictions", "/", "temperature">>

UnusedNames == {n \in AllNames : Unused(n)}

C10_UnusedNamesFiltered ==
    /\ \A i \in 1..Len(tf_names) : ~Unused(tf_names[i])
    /\ \A i \in 1..Len(name_map) : ~Unused(name_map[i].src)
    /\ \A i \in 1..Len(log) : \A j \in 1..Len(log[i].val.src) : ~Unused(log[i].val.src[j])
    /\ pc = "raised" => ~Unused(err.key)
    /\ (ckpt \ UnusedNames = FullCheckpoint \ UnusedNames /\ bad_shape \subseteq UnusedNames) =>
          (pc = "raised" => err.kind \in {"config", "equivalence"})

C10_Witness ==
    /\ pc = "done"
    /\ UnusedNames \subseteq ckpt
    /\ Cardinality(UnusedNames) = 4
    /\ bad_shape \subseteq UnusedNames /\ bad_shape # {}

(***************************************************************************)
(* C11: the roles are converted in the order backbone, disc, gen: the      *)
(* set_data calls are made in that order of roles, and the parameter files *)
(* saved while a role is converted are those of the roles before it. Once  *)
(* the generator has passed its check of the leftover keys, every tied     *)
(* name the check exempted refers to a parameter of the discriminator that *)
(* the discriminator's per-key loop set from a variable of the checkpoint  *)
(* before anything was set on the generator, and gen_model.params holds no *)
(* exempted name with its initial value.                                   *)
(***************************************************************************)
GenChecked ==
    convert_type = "gen" /\ pc \in {"merge", "persist", "save", "finish", "done"}

SetByDiscLoop(n) ==
    \E i \in 1..Len(log) :
        /\ log[i].role = "disc"
        /\ log[i].by = "loop"
        /\ Slot("disc", log[i].name) = Slot("gen", n)
        /\ log[i].val.kind = "copy"
        /\ log[i].val.src[1] \in ckpt
        /\ \A j \in 1..i : log[j].role # "gen"

C11_TiedSetByDisc ==
    /\ \A i, j \in 1..Len(log) :
          i <= j => RoleIndex(log[i].role) <= RoleIndex(log[j].role)
    /\ pc \in InRole \cup {"name_map"} =>
          {r \in RoleSet : RoleFile[r] \in files} = {Roles[i] : i \in 1..(role_idx - 1)}
    /\ GenChecked =>
          \A n \in Shared("gen") : SetByDiscLoop(n) /\ ParamData("gen", n).kind = "copy"
    /\ RoleFile["gen"] \in files =>
          /\ RoleFile["disc"] \in files /\ RoleFile["backbone"] \in files
          /\ \A n \in Shared("gen") : saved["gen"][1][n].kind = "copy"

C11_Witness ==
    /\ pc = "finish"
    /\ RoleFile["gen"] \in files
    /\ Shared("gen") = disc_embed_params
    /\ saved["gen"][1][MlmDecoderWeight] = CopyOf(WordEmbeddings, FALSE)
    /\ saved["gen"][1][MlmDecoderWeight] = saved["disc"][1][DiscWordEmbed]

====
